---- MODULE Spec2Model ----
(***************************************************************************)
(* Retrieval pipeline of the RAG bot: PDF text extraction, chunking,       *)
(* embedding + batched persistence (RAGService.process_pdf and             *)
(* PDFSectionProcessor.process_section) and the pgvector similarity search *)
(* (RAGService.search_similar_content), and the answering of a question    *)
(* (TelegramBot.handle_message, POST /query, RAGService.get_response,      *)
(* get_conversation_history_24h, OpenAIService.generate_response).         *)
(*                                                                         *)
(* Text is a sequence of one-character strings; offsets are Python         *)
(* offsets (zero-based, negative offsets count from the end).              *)
(***************************************************************************)
EXTENDS Integers, Sequences, FiniteSets, TLC

VARIABLES
    mode,               \* "pdf": RAGService.process_pdf, "section": PDFSectionProcessor.process_section
    cfg,                \* [chunk_size, chunk_overlap] of the service instance
    pages,              \* the PDF: text of each page (<<>> when a page has no text)
    extract_log,        \* extractors that were run on the PDF, in order
    text,               \* local `text` of extract_text_from_pdf / process_pdf / chunk_text
    pc,                 \* position of the running operation
    start,              \* chunk_text: local `start`
    chunks,             \* chunk_text: local `chunks`
    spans,              \* chunk_text: for every element of `chunks`, the offsets [lo, hi) of text[start:end]
    i,                  \* embedding loop: number of chunks already handled
    pending,            \* documents added to the session and not yet committed
    store,              \* committed rows of table documents, in insertion order
    successful_chunks,  \* process_pdf: successful_chunks / process_section: saved_chunks
    result,             \* return value of process_pdf ("none" while running / for void)
    embed_log,          \* outcome of the embedding call of every chunk handled so far
    commit_log,         \* outcome of every db.commit() that had something to flush
    limit,              \* search_similar_content: parameter `limit`
    query,              \* the text asked about (parameter `query`)
    query_embedding,    \* search_similar_content: embedding of the query (<<>> when the call failed)
    rows,               \* search_similar_content: rows produced by the SQL query
    similar_content,    \* search_similar_content: the returned list
    frame,              \* who called search_similar_content: "endpoint", "get_response" or "none"
    user_id,            \* id of the asking user's row (0: no such user / user_id = None)
    include_history,    \* QueryRequest.include_history
    now,                \* datetime.utcnow(), in hours
    conversation_table, \* committed rows of table conversations, in insertion order
    conversations,      \* get_conversation_history_24h: rows the query produced (positions in the table)
    history_log,        \* outcome of every read of the conversation history
    conversation_history_24h, \* the list returned by get_conversation_history_24h
    context,            \* the `context` handed to generate_response
    messages,           \* the `messages` handed to the completion call
    gen_log,            \* outcome of every completion call
    response,           \* what get_response / generate_response returned
    save_log,           \* outcome of every commit of a conversation turn
    reply,              \* what the handler sent back: [kind, text]
    page_num,           \* extract_sections: pages handled so far
    current_section,    \* extract_sections: local `current_section`
    sections,           \* extract_sections: local `sections`
    session_open,       \* background task: its database session is open
    temp_file,          \* background task: the uploaded temporary file exists
    update_queue,       \* bot: Application.update_queue, the updates not yet handled
    next_update_id,     \* bot: updates received so far
    known_users,        \* bot: the ids in table users
    handler_pc,         \* bot: where the handler of each update stands
    handler_history,    \* bot: the stored messages each handler read as history
    summary             \* bot: what get_conversation_summary gave each handler

vars == <<mode, cfg, pages, extract_log, text, pc, start, chunks, spans, i, pending, store,
          successful_chunks, result, embed_log, commit_log, limit, query,
          query_embedding, rows, similar_content, frame, user_id, include_history,
          now, conversation_table, conversations, history_log,
          conversation_history_24h, context, messages, gen_log, response,
          save_log, reply, page_num, current_section, sections, session_open,
          temp_file, update_queue, next_update_id, known_users, handler_pc,
          handler_history, summary>>

chunkVars  == <<start, chunks, spans>>
ingestVars == <<i, pending, store, successful_chunks, result, embed_log, commit_log>>
searchVars == <<limit, query, query_embedding, rows, similar_content>>
requestVars == <<user_id, include_history, now>>
answerVars == <<frame, requestVars, conversation_table, conversations, history_log,
                conversation_history_24h, context, messages, gen_log, response,
                save_log, reply>>

sectionVars == <<page_num, current_section, sections>>
taskVars == <<session_open, temp_file>>

\* extract_sections is not running
SectionsIdle ==
    /\ page_num = 0
    /\ current_section = <<>>
    /\ sections = <<>>

\* no background task is running
TaskIdle ==
    /\ session_open = FALSE
    /\ temp_file = FALSE

botVars == <<update_queue, next_update_id, known_users, handler_pc, handler_history,
             summary>>

\* the bot is not running
BotIdle ==
    /\ update_queue = <<>>
    /\ next_update_id = 0
    /\ known_users = {}
    /\ handler_pc = <<>>
    /\ handler_history = <<>>
    /\ summary = <<>>

\* no question is being answered
NoReply == [kind |-> "none", text |-> <<>>]

AnswerIdle ==
    /\ frame = "none"
    /\ user_id = 0
    /\ include_history = FALSE
    /\ now = 0
    /\ conversation_table = <<>>
    /\ conversations = <<>>
    /\ history_log = <<>>
    /\ conversation_history_24h = <<>>
    /\ context = <<>>
    /\ messages = <<>>
    /\ gen_log = <<>>
    /\ response = <<>>
    /\ save_log = <<>>
    /\ reply = NoReply

-----------------------------------------------------------------------------
(* Bounds *)

ChunkSize       == 5    \* stands for RAGService.chunk_size (1000)
ChunkOverlap    == 3    \* stands for RAGService.chunk_overlap (200)
SecChunkSize    == 6    \* stands for PDFSectionProcessor's default chunk_size (3000)
SecChunkOverlap == 2    \* stands for PDFSectionProcessor's default chunk_overlap (200)
MaxCfg          == 3    \* constructor arguments tried for PDFSectionProcessor: 0..MaxCfg
MaxTextLen      == 6    \* longest text handed to the chunkers on their own
MaxChunks       == 16   \* chunk_text is followed for at most this many emitted chunks
MaxBack         == 4    \* ... and while start >= -MaxBack
WideChunkSize    == 9   \* a second stand-in for RAGService.chunk_size (1000) ...
WideChunkOverlap == 4   \* ... and chunk_overlap (200): a break marker can end overlap - 1 characters in
MaxWideTokens    == 7   \* words and break markers of the texts chunked with that configuration
MaxPages        == 2    \* pages of an uploaded PDF
PageLen         == 9    \* characters of a full page of the uploaded PDFs
MaxEmbedFailures  == 3  \* embedding calls that fail during one ingestion
MaxCommitFailures == 2  \* commits that fail during one ingestion
MaxCoord        == 1    \* embedding coordinates range over 0..MaxCoord
MaxDocs         == 3    \* rows of table documents when a search runs
MaxLimit        == 3    \* largest `limit` passed to search_similar_content
MaxSecPages     == 3    \* pages of a PDF handed to extract_sections
MaxSecPageLen   == 2    \* characters of a page of such a PDF
MaxOtherTurns   == 2    \* turns other sessions commit while the bot runs
MaxUpdates      == 4    \* updates the bot receives in one run
MaxTurns        == 3    \* rows of table conversations, tried with every owner and age
MaxLongTurns    == 22   \* rows of the longest conversation of one user inside the window

-----------------------------------------------------------------------------
(* Python string primitives *)

Min(S) == CHOOSE x \in S : \A y \in S : x <= y
Max(S) == CHOOSE x \in S : \A y \in S : x >= y

IsSpace(c) == c \in {" ", "\n"}

\* CPython's slice index adjustment: negative offsets count from the end,
\* everything is clipped to 0..n
PyIndex(k, n) == IF k < 0 THEN (IF k + n < 0 THEN 0 ELSE k + n)
                 ELSE (IF k > n THEN n ELSE k)

\* s[a:b]
Slice(s, a, b) ==
    LET lo == PyIndex(a, Len(s))
        hi == PyIndex(b, Len(s))
    IN  IF lo >= hi THEN <<>> ELSE SubSeq(s, lo + 1, hi)

\* s.rfind(sub, a, b): highest offset p with s[p:p+len(sub)] = sub inside s[a:b], or -1
RFind(s, sub, a, b) ==
    LET lo == PyIndex(a, Len(s))
        hi == PyIndex(b, Len(s))
        at == {p \in lo..(hi - Len(sub)) : SubSeq(s, p + 1, p + Len(sub)) = sub}
    IN  IF at = {} THEN -1 ELSE Max(at)

\* s.strip()
Strip(s) ==
    LET keep == {k \in 1..Len(s) : ~IsSpace(s[k])}
    IN  IF keep = {} THEN <<>> ELSE SubSeq(s, Min(keep), Max(keep))

-----------------------------------------------------------------------------
(* chunk_text *)

BreakChars == << <<"\n", "\n">>, <<".", " ">>, <<".", "\n">>, <<"!", "\n">>, <<"?", "\n">> >>

\* RAGService.chunk_text: `end` of the window that begins at st
RagChunkEnd(t, st, size) ==
    LET end  == st + size
        hits == {k \in 1..Len(BreakChars) : RFind(t, BreakChars[k], st, end) > st}
    IN  IF end < Len(t) /\ hits /= {}
        THEN RFind(t, BreakChars[Min(hits)], st, end) + Len(BreakChars[Min(hits)])
        ELSE end

\* PDFSectionProcessor.chunk_text: `end` of the window that begins at st
SecChunkEnd(t, st, size) ==
    LET end     == st + size
        cut_pos == RFind(t, <<" ">>, st, end)
    IN  IF end < Len(t) /\ cut_pos /= -1 /\ cut_pos > st THEN cut_pos ELSE end

ChunkEnd(m, t, st, size) ==
    IF m = "pdf" THEN RagChunkEnd(t, st, size) ELSE SecChunkEnd(t, st, size)

\* chunks after `chunk = text[start:end].strip(); if chunk: chunks.append(chunk)`
EmitChunk(cs, t, st, end) ==
    LET chunk == Strip(Slice(t, st, end))
    IN  IF chunk /= <<>> THEN Append(cs, chunk) ELSE cs

\* offsets of the characters that text[st:end] holds
SpanOf(t, st, end) == [lo |-> PyIndex(st, Len(t)), hi |-> PyIndex(end, Len(t))]

\* the spans of the chunks after the same step
EmitSpan(sp, t, st, end) ==
    IF Strip(Slice(t, st, end)) /= <<>> THEN Append(sp, SpanOf(t, st, end)) ELSE sp

\* `start = end - self.chunk_overlap`
NextStart(end, overlap) == end - overlap

\* one iteration of the while loop of chunk_text
ChunkStep ==
    /\ pc = "chunk"
    /\ start < Len(text)
    /\ Len(chunks) < MaxChunks
    /\ start >= -MaxBack
    /\ LET end == ChunkEnd(mode, text, start, cfg.chunk_size)
       IN  /\ chunks' = EmitChunk(chunks, text, start, end)
           /\ spans' = EmitSpan(spans, text, start, end)
           /\ start' = NextStart(end, cfg.chunk_overlap)
    /\ UNCHANGED <<botVars, sectionVars, taskVars, answerVars, mode, cfg, pages, extract_log,
                   text, pc, ingestVars, searchVars>>

\* the loop condition fails: chunk_text returns chunks
ChunkReturn ==
    /\ pc = "chunk"
    /\ ~(start < Len(text))
    /\ pc' = "embed"
    /\ UNCHANGED <<botVars, sectionVars, taskVars, answerVars, mode, cfg, pages, extract_log,
                   text, chunkVars, ingestVars, searchVars>>

-----------------------------------------------------------------------------
(* The chunkers on their own *)

\* RAGService.chunk_text tells apart the characters of its break markers, other
\* whitespace and anything else; PDFSectionProcessor.chunk_text the blank, other
\* whitespace and anything else
Alphabet        == {"a", " ", ".", "\n", "!", "?"}
SectionAlphabet == {"a", " ", "\n"}

Texts(A, n) == UNION {[1..k -> A] : k \in 0..n}

RagConfig == [chunk_size |-> ChunkSize, chunk_overlap |-> ChunkOverlap]

SectionConfigs == [chunk_size : 1..MaxCfg, chunk_overlap : 0..MaxCfg]

\* chunk_size and chunk_overlap of RAGService at a scale at which, as with 1000
\* and 200, the first break marker of a text can lie less than chunk_overlap
\* characters from its beginning
WideConfig == [chunk_size |-> WideChunkSize, chunk_overlap |-> WideChunkOverlap]

\* texts made of words and of break markers of two priorities
WideTokens == {<<"a">>, <<"a", "a", "a", "a">>, <<"\n", "\n">>, <<".", " ">>}

RECURSIVE Flatten(_)
Flatten(ts) == IF ts = <<>> THEN <<>> ELSE Head(ts) \o Flatten(Tail(ts))

WideTexts == {Flatten(ts) : ts \in UNION {[1..k -> WideTokens] : k \in 0..MaxWideTokens}}

InitChunker ==
    /\ mode \in {"pdf", "section"}
    /\ cfg \in (IF mode = "pdf" THEN {RagConfig, WideConfig} ELSE SectionConfigs)
    /\ text \in (IF mode = "section" THEN Texts(SectionAlphabet, MaxTextLen)
                ELSE IF cfg = RagConfig THEN Texts(Alphabet, MaxTextLen)
                ELSE WideTexts)
    /\ pages = <<>>
    /\ extract_log = <<>>
    /\ pc = "chunk"
    /\ start = 0
    /\ chunks = <<>>
    /\ spans = <<>>
    /\ i = 0
    /\ pending = <<>>
    /\ store = <<>>
    /\ successful_chunks = 0
    /\ result = "none"
    /\ embed_log = <<>>
    /\ commit_log = <<>>
    /\ limit = 0
    /\ query = <<>>
    /\ query_embedding = <<>>
    /\ rows = <<>>
    /\ similar_content = <<>>
    /\ AnswerIdle
    /\ SectionsIdle
    /\ TaskIdle
    /\ BotIdle

NextChunker == ChunkStep \/ ChunkReturn

SpecChunker == InitChunker /\ [][NextChunker]_vars

-----------------------------------------------------------------------------
(* Text extraction: RAGService.extract_text_from_pdf *)

RECURSIVE PagesText(_)
\* `for page in pages: page_text = page.extract_text(); if page_text: text += page_text + "\n"`
PagesText(ps) ==
    IF ps = <<>> THEN <<>>
    ELSE (IF Head(ps) /= <<>> THEN Head(ps) \o <<"\n">> ELSE <<>>) \o PagesText(Tail(ps))

\* process_pdf after extract_text_from_pdf returned t: `if not text.strip(): return False`
NoUsableText(t) == Strip(t) = <<>>

\* pdfplumber reads every page without raising; process_pdf then checks the text
PrimaryExtract ==
    /\ pc = "extract"
    /\ text' = text \o PagesText(pages)
    /\ extract_log' = Append(extract_log, "pdfplumber:ok")
    /\ IF NoUsableText(text')
       THEN pc' = "done" /\ result' = "false"
       ELSE pc' = "chunk" /\ result' = result
    /\ UNCHANGED <<botVars, sectionVars, taskVars, answerVars, mode, cfg, pages, chunkVars,
                   i, pending, store, successful_chunks,
                   embed_log, commit_log, searchVars>>

\* pdfplumber raises (on open, or on a page after k pages were read): the except
\* branch is entered with the text collected so far
PrimaryRaise ==
    /\ pc = "extract"
    /\ \E k \in 0..(IF pages = <<>> THEN 0 ELSE Len(pages) - 1) :
          text' = text \o PagesText(SubSeq(pages, 1, k))
    /\ extract_log' = Append(extract_log, "pdfplumber:raise")
    /\ pc' = "fallback"
    /\ UNCHANGED <<botVars, sectionVars, taskVars, answerVars, mode, cfg, pages, chunkVars,
                   ingestVars, searchVars>>

\* PyPDF2 reads every page; process_pdf then checks the text
FallbackExtract ==
    /\ pc = "fallback"
    /\ text' = text \o PagesText(pages)
    /\ extract_log' = Append(extract_log, "PyPDF2:ok")
    /\ IF NoUsableText(text')
       THEN pc' = "done" /\ result' = "false"
       ELSE pc' = "chunk" /\ result' = result
    /\ UNCHANGED <<botVars, sectionVars, taskVars, answerVars, mode, cfg, pages, chunkVars,
                   i, pending, store, successful_chunks,
                   embed_log, commit_log, searchVars>>

\* (mutant) the failure of the fallback extractor is swallowed and the text
\* collected so far is processed
FallbackRaiseSwallowed ==
    /\ pc = "fallback"
    /\ extract_log' = Append(extract_log, "PyPDF2:raise")
    /\ pc' = "chunk"
    /\ UNCHANGED <<botVars, sectionVars, taskVars, answerVars, mode, cfg, pages, text,
                   chunkVars, ingestVars, searchVars>>

\* PyPDF2 raises too: extract_text_from_pdf re-raises, process_pdf's outer except
\* rolls back and returns False
FallbackRaise ==
    /\ pc = "fallback"
    /\ extract_log' = Append(extract_log, "PyPDF2:raise")
    /\ pending' = <<>>
    /\ result' = "false"
    /\ pc' = "done"
    /\ UNCHANGED <<botVars, sectionVars, taskVars, answerVars, mode, cfg, pages, text,
                   chunkVars, i, store, successful_chunks,
                   embed_log, commit_log, searchVars>>

-----------------------------------------------------------------------------
(* Embedding and batched persistence: process_pdf / process_section *)

BatchSize == 5

Count(c, ch) == Cardinality({k \in 1..Len(c) : c[k] = ch})

\* openai_service.generate_embedding on success: an external model, here a fixed
\* map from the text to a point of the grid (0..MaxCoord) x (0..MaxCoord)
EmbeddingOf(c) == <<Len(c) % (MaxCoord + 1), Count(c, "a") % (MaxCoord + 1)>>

FileName(m) == IF m = "pdf" THEN "doc.pdf" ELSE "doc_section1"

\* Document(filename=..., content=chunk, embedding=embedding, chunk_index=i)
NewDocument(m, chunk, embedding, idx) ==
    [filename |-> FileName(m), content |-> chunk, embedding |-> embedding, chunk_index |-> idx]

\* db.add(document)
SessionAdd(p, d) == Append(p, d)

\* (mutant) db.rollback() leaves the added documents in the session
SessionRollbackKeeps(p) == p

\* db.rollback(): everything added since the last commit is expunged
SessionRollback(p) == <<>>

\* db.commit() succeeding: the pending documents become rows, ids in order of add
SessionCommit(st, p) ==
    st \o [k \in 1..Len(p) |->
             [id |-> Len(st) + k, filename |-> p[k].filename, content |-> p[k].content,
              embedding |-> p[k].embedding, chunk_index |-> p[k].chunk_index]]

\* `if (i + 1) % 5 == 0`
CommitDue(idx) == (idx + 1) % BatchSize = 0

EmbedFailures  == Cardinality({k \in 1..Len(embed_log) : ~embed_log[k].ok})
CommitFailures == Cardinality({k \in 1..Len(commit_log) : ~commit_log[k].ok})

EmbedOk(chunk)  == [ok |-> TRUE, embedding |-> EmbeddingOf(chunk)]
EmbedErr        == [ok |-> FALSE, embedding |-> <<>>]
CommitEntry(n, final, good) == [upto |-> n, final |-> final, ok |-> good]

\* `return successful_chunks > 0` (process_section returns nothing)
ReturnValue(m, n) == IF m = "pdf" THEN (IF n > 0 THEN "true" ELSE "false") ELSE "returned"

\* `return False` after a failed final commit (process_section only logs)
ReturnAfterFinalFailure(m) == IF m = "pdf" THEN "false" ELSE "returned"

\* (mutant) a chunk whose embedding failed is added with an empty vector
EmbedFailStoresNull ==
    /\ pc = "embed"
    /\ i < Len(chunks)
    /\ EmbedFailures < MaxEmbedFailures
    /\ embed_log' = Append(embed_log, EmbedErr)
    /\ pending' = SessionAdd(pending, NewDocument(mode, chunks[i + 1], <<>>, i))
    /\ i' = i + 1
    /\ UNCHANGED <<botVars, sectionVars, taskVars, answerVars, mode, cfg, pages, extract_log,
                   text, pc, chunkVars, store,
                   successful_chunks, result, commit_log, searchVars>>

\* loop iteration in which generate_embedding raises: except -> rollback, continue
EmbedFail ==
    /\ pc = "embed"
    /\ i < Len(chunks)
    /\ EmbedFailures < MaxEmbedFailures
    /\ embed_log' = Append(embed_log, EmbedErr)
    /\ pending' = SessionRollback(pending)
    /\ i' = i + 1
    /\ UNCHANGED <<botVars, sectionVars, taskVars, answerVars, mode, cfg, pages, extract_log,
                   text, pc, chunkVars, store,
                   successful_chunks, result, commit_log, searchVars>>

\* loop iteration that embeds and adds the chunk, no commit being due
AddChunk ==
    /\ pc = "embed"
    /\ i < Len(chunks)
    /\ ~CommitDue(i)
    /\ embed_log' = Append(embed_log, EmbedOk(chunks[i + 1]))
    /\ pending' = SessionAdd(pending, NewDocument(mode, chunks[i + 1], EmbeddingOf(chunks[i + 1]), i))
    /\ successful_chunks' = successful_chunks + 1
    /\ i' = i + 1
    /\ UNCHANGED <<botVars, sectionVars, taskVars, answerVars, mode, cfg, pages, extract_log,
                   text, pc, chunkVars, store,
                   result, commit_log, searchVars>>

\* loop iteration that embeds and adds the chunk and commits the batch
BatchCommit ==
    /\ pc = "embed"
    /\ i < Len(chunks)
    /\ CommitDue(i)
    /\ embed_log' = Append(embed_log, EmbedOk(chunks[i + 1]))
    /\ store' = SessionCommit(store,
                    SessionAdd(pending, NewDocument(mode, chunks[i + 1], EmbeddingOf(chunks[i + 1]), i)))
    /\ pending' = <<>>
    /\ commit_log' = Append(commit_log, CommitEntry(i + 1, FALSE, TRUE))
    /\ successful_chunks' = successful_chunks + 1
    /\ i' = i + 1
    /\ UNCHANGED <<botVars, sectionVars, taskVars, answerVars, mode, cfg, pages, extract_log,
                   text, pc, chunkVars, result, searchVars>>

\* (mutant) a failed batch commit ends the run
BatchCommitFailAborts ==
    /\ pc = "embed"
    /\ i < Len(chunks)
    /\ CommitDue(i)
    /\ CommitFailures < MaxCommitFailures
    /\ embed_log' = Append(embed_log, EmbedOk(chunks[i + 1]))
    /\ pending' = <<>>
    /\ commit_log' = Append(commit_log, CommitEntry(i + 1, FALSE, FALSE))
    /\ i' = i + 1
    /\ result' = ReturnAfterFinalFailure(mode)
    /\ pc' = "done"
    /\ UNCHANGED <<botVars, sectionVars, taskVars, answerVars, mode, cfg, pages, extract_log,
                   text, chunkVars, store,
                   successful_chunks, searchVars>>

\* loop iteration that embeds and adds the chunk, and the batch commit raises:
\* except -> rollback, continue (successful_chunks is not incremented)
BatchCommitFail ==
    /\ pc = "embed"
    /\ i < Len(chunks)
    /\ CommitDue(i)
    /\ CommitFailures < MaxCommitFailures
    /\ embed_log' = Append(embed_log, EmbedOk(chunks[i + 1]))
    /\ pending' = SessionRollback(
                    SessionAdd(pending, NewDocument(mode, chunks[i + 1], EmbeddingOf(chunks[i + 1]), i)))
    /\ commit_log' = Append(commit_log, CommitEntry(i + 1, FALSE, FALSE))
    /\ i' = i + 1
    /\ UNCHANGED <<botVars, sectionVars, taskVars, answerVars, mode, cfg, pages, extract_log,
                   text, pc, chunkVars, store,
                   successful_chunks, result, searchVars>>

\* after the loop: the final commit succeeds
FinalCommit ==
    /\ pc = "embed"
    /\ i = Len(chunks)
    /\ store' = SessionCommit(store, pending)
    /\ pending' = <<>>
    /\ commit_log' = IF pending = <<>> THEN commit_log
                     ELSE Append(commit_log, CommitEntry(i, TRUE, TRUE))
    /\ result' = ReturnValue(mode, successful_chunks)
    /\ pc' = "done"
    /\ UNCHANGED <<botVars, sectionVars, taskVars, answerVars, mode, cfg, pages, extract_log,
                   text, chunkVars, i,
                   successful_chunks, embed_log, searchVars>>

\* after the loop: the final commit raises: rollback. A commit of a session with
\* nothing added since the last commit or rollback sends nothing to the database,
\* so only a commit that has documents to flush can raise
FinalCommitFail ==
    /\ pc = "embed"
    /\ i = Len(chunks)
    /\ pending /= <<>>
    /\ CommitFailures < MaxCommitFailures
    /\ pending' = SessionRollback(pending)
    /\ commit_log' = Append(commit_log, CommitEntry(i, TRUE, FALSE))
    /\ result' = ReturnAfterFinalFailure(mode)
    /\ pc' = "done"
    /\ UNCHANGED <<botVars, sectionVars, taskVars, answerVars, mode, cfg, pages, extract_log,
                   text, chunkVars, i, store,
                   successful_chunks, embed_log, searchVars>>

-----------------------------------------------------------------------------
(* Ingestion of one upload *)

PgNone  == <<>>
PgBlank == <<" ">>
PgWords == [k \in 1..PageLen |-> IF k % 2 = 1 THEN "a" ELSE " "]
PgProse == [k \in 1..PageLen |-> IF k = PageLen - 2 THEN "."
                                 ELSE IF k = PageLen - 1 THEN " " ELSE "a"]

PageTexts == {PgNone, PgBlank, PgWords, PgProse}

Docs == UNION {[1..n -> PageTexts] : n \in 0..MaxPages}

\* a section whose text is a single line of words, as long as MaxPages pages
WordsLine == [k \in 1..(MaxPages * (PageLen + 1) - 1) |-> IF k % 2 = 1 THEN "a" ELSE " "]

\* extract_sections returns stripped, non-empty sections
SectionTexts == ({Strip(PagesText(d)) : d \in Docs} \ {<<>>}) \cup {WordsLine}

SectionDefault == [chunk_size |-> SecChunkSize, chunk_overlap |-> SecChunkOverlap]

\* a document ingested earlier
\* the background task at its first statement: upload_pdf has written the
\* temporary file and `db = SessionLocal()` has opened the session
TaskStarted ==
    /\ session_open = TRUE
    /\ temp_file = TRUE

\* process_pdf / process_pdf_in_sections has returned or raised: the `finally`
\* of the background task, db.close() and os.remove(file_path)
TaskFinally ==
    /\ pc = "done"
    /\ pc' = "closed"
    /\ session_open' = FALSE
    /\ temp_file' = FALSE
    /\ UNCHANGED <<botVars, sectionVars, answerVars, mode, cfg, pages, extract_log, text, chunkVars,
                   ingestVars, searchVars>>

PriorStore ==
    << [id |-> 1, filename |-> "old.pdf", content |-> <<"a">>,
        embedding |-> EmbeddingOf(<<"a">>), chunk_index |-> 0] >>

Init ==
    /\ mode \in {"pdf", "section"}
    /\ IF mode = "pdf"
       THEN /\ cfg = RagConfig
            /\ pages \in Docs
            /\ text = <<>>
            /\ pc = "extract"
       ELSE /\ cfg = SectionDefault
            /\ pages = <<>>
            /\ text \in SectionTexts
            /\ pc = "chunk"
    /\ extract_log = <<>>
    /\ start = 0
    /\ chunks = <<>>
    /\ spans = <<>>
    /\ i = 0
    /\ pending = <<>>
    /\ store = PriorStore
    /\ successful_chunks = 0
    /\ result = "none"
    /\ embed_log = <<>>
    /\ commit_log = <<>>
    /\ limit = 0
    /\ query = <<>>
    /\ query_embedding = <<>>
    /\ rows = <<>>
    /\ similar_content = <<>>
    /\ AnswerIdle
    /\ SectionsIdle
    /\ TaskStarted
    /\ BotIdle

Next ==
    \/ PrimaryExtract
    \/ PrimaryRaise
    \/ FallbackExtract
    \/ FallbackRaise
    \/ ChunkStep
    \/ ChunkReturn
    \/ EmbedFail
    \/ AddChunk
    \/ BatchCommit
    \/ BatchCommitFail
    \/ FinalCommit
    \/ FinalCommitFail
    \/ TaskFinally

Spec == Init /\ [][Next]_vars

\* the event loop keeps running a background task that has a step to take
SpecTask == Init /\ [][Next]_vars /\ WF_vars(Next)

-----------------------------------------------------------------------------
(* Properties of ingestion *)

\* rows of table documents written by this run, and their chunk indices
RunRows      == {k \in 1..Len(store) : store[k].filename = FileName(mode)}
PersistedIdx == {store[k].chunk_index : k \in RunRows}

\* chunk indices whose embedding call succeeded
EmbeddedIdx == {k - 1 : k \in {n \in 1..Len(embed_log) : embed_log[n].ok}}

\* the run ended without usable text: both extractors raised, or the text is blank
ExtractionFailed ==
    /\ mode = "pdf"
    /\ pc = "done"
    /\ \/ NoUsableText(text)
       \/ (extract_log /= <<>> /\ extract_log[Len(extract_log)] = "PyPDF2:raise")

FallbackAttempted ==
    \E k \in 1..Len(extract_log) : extract_log[k] \in {"PyPDF2:ok", "PyPDF2:raise"}

\* chunk j (zero-based) was embedded, and the first commit after it succeeded with
\* no embedding failure in between
CommittedIntact(j) ==
    /\ j + 1 <= Len(embed_log)
    /\ embed_log[j + 1].ok
    /\ \E e \in 1..Len(commit_log) :
          /\ commit_log[e].ok
          /\ commit_log[e].upto >= j + 1
          /\ \A k \in (j + 2)..commit_log[e].upto : embed_log[k].ok
          /\ \A f \in 1..Len(commit_log) :
                ~(j + 1 <= commit_log[f].upto /\ commit_log[f].upto < commit_log[e].upto)

\* C1: with extraction and every commit succeeding, and the embedding call failing
\* for some chunks and succeeding for others, exactly the chunks whose embedding
\* succeeded are persisted and process_pdf returns true
C1_PartialFailurePersistsTheRest ==
    (/\ mode = "pdf"
     /\ pc = "done"
     /\ ~ExtractionFailed
     /\ CommitFailures = 0
     /\ EmbedFailures > 0
     /\ EmbeddedIdx /= {})
    => (/\ PersistedIdx = EmbeddedIdx
        /\ Cardinality(RunRows) = Cardinality(EmbeddedIdx)
        /\ result = "true")

\* C2: process_pdf returns true if and only if at least one chunk of the run is
\* committed when it returns
C2_TrueIffPersisted ==
    (mode = "pdf" /\ pc = "done") => ((result = "true") <=> (RunRows /= {}))

\* C5: a failed batch commit loses only the documents pending at that moment: what
\* earlier commits wrote stays in the store, every later chunk is still embedded,
\* and a later chunk is persisted when its own batch goes through
C5_BatchFailureIsLocal ==
    (pc \in {"embed", "done"} /\ ~ExtractionFailed) =>
       /\ SubSeq(store, 1, Len(PriorStore)) = PriorStore
       /\ Len(store) = Len(PriorStore) + Cardinality(RunRows)
       /\ PersistedIdx = {j \in 0..(Len(chunks) - 1) : CommittedIntact(j)}
       /\ \A k \in RunRows : \A n \in RunRows :
             k < n => store[k].chunk_index < store[n].chunk_index
       /\ (pc = "done" => Len(embed_log) = Len(chunks))

\* a run in which the first batch was committed, the second batch commit failed
\* and a later commit succeeded
C5_Witness ==
    /\ pc = "done"
    /\ Len(commit_log) = 3
    /\ commit_log[1].ok /\ ~commit_log[2].ok /\ commit_log[3].ok
    /\ commit_log[2].upto = 2 * BatchSize
    /\ {0, 1, 2, 3, 4} \subseteq PersistedIdx
    /\ PersistedIdx \cap (BatchSize..(2 * BatchSize - 1)) = {}
    /\ \E j \in PersistedIdx : j >= 2 * BatchSize

\* C6: every row of table documents has non-empty, trimmed content and carries the
\* vector the gateway returned for that very chunk; no chunk whose embedding call
\* failed has a row
C6_PersistedChunksAreEmbedded ==
    \A k \in 1..Len(store) :
       /\ store[k].content /= <<>>
       /\ Strip(store[k].content) = store[k].content
       /\ store[k].embedding /= <<>>
       /\ k \in RunRows =>
             /\ store[k].chunk_index + 1 <= Len(embed_log)
             /\ embed_log[store[k].chunk_index + 1].ok
             /\ embed_log[store[k].chunk_index + 1].embedding = store[k].embedding
             /\ chunks[store[k].chunk_index + 1] = store[k].content

\* a finished run that persisted chunks although some embedding calls failed
C6_Witness ==
    /\ pc = "done"
    /\ EmbedFailures >= 2
    /\ Cardinality(RunRows) >= 2

\* C7: whenever the primary extractor yields no usable text (it raises, or returns
\* blank text), the fallback extractor has run before ingestion is declared failed
C7_FallbackBeforeFailure ==
    (mode = "pdf" /\ pc = "done" /\ result = "false" /\ ExtractionFailed)
    => FallbackAttempted

\* C8: when extraction fails, process_pdf returns false, no embedding call was made
\* and table documents is what it was
C8_ExtractionFailureStoresNothing ==
    ExtractionFailed =>
       /\ result = "false"
       /\ embed_log = <<>>
       /\ pending = <<>>
       /\ store = PriorStore

\* both extractors raised, the primary one after it had collected usable text
C8_Witness ==
    /\ ExtractionFailed
    /\ ~NoUsableText(text)
    /\ extract_log = <<"pdfplumber:raise", "PyPDF2:raise">>

\* extract_text_from_pdf returned a text
ExtractionReturned ==
    /\ extract_log /= <<>>
    /\ extract_log[Len(extract_log)] \in {"pdfplumber:ok", "PyPDF2:ok"}

\* number of places at which sub occurs in t
Occurrences(t, sub) ==
    Cardinality({p \in 1..(Len(t) - Len(sub) + 1) : SubSeq(t, p, p + Len(sub) - 1) = sub})

\* C28: the text extract_text_from_pdf returns holds the text of a page no more
\* often than the document has pages with that text, also when the fallback
\* extractor runs after the primary one had read some pages
C28_EachPageOnce ==
    ExtractionReturned =>
       \A k \in 1..Len(pages) :
          pages[k] /= <<>> =>
             Occurrences(text, pages[k] \o <<"\n">>)
                <= Cardinality({j \in 1..Len(pages) : pages[j] = pages[k]})

\* C25: at most 5 documents are ever added to the session without having been
\* committed or rolled back (counting the one the running iteration adds), and
\* none is left when process_pdf / process_section returns
C25_PendingBounded ==
    /\ Len(pending) <= BatchSize
    /\ (pc = "embed" /\ i < Len(chunks))
          => Len(SessionAdd(pending, NewDocument(mode, chunks[i + 1],
                                                 EmbeddingOf(chunks[i + 1]), i))) <= BatchSize
    /\ pc = "done" => pending = <<>>

\* four documents wait in the session and the iteration that adds the fifth and
\* commits is next, in a run that has already rolled back
C25_Witness ==
    /\ pc = "embed"
    /\ i < Len(chunks)
    /\ CommitDue(i)
    /\ Len(pending) = BatchSize - 1
    /\ EmbedFailures > 0

\* the background task is over, its session closed and its file deleted
TaskEnded == pc = "closed" /\ ~session_open /\ ~temp_file

\* the loop of chunk_text is left unfinished by the model only where an
\* iteration leaves start as it found it, which the code repeats for ever
CutOnlyWhenStalled ==
    (pc = "chunk" /\ start < Len(text) /\ ~(Len(chunks) < MaxChunks /\ start >= -MaxBack))
    => NextStart(ChunkEnd(mode, text, start, cfg.chunk_size), cfg.chunk_overlap) = start

-----------------------------------------------------------------------------
(* Properties of the chunkers (SpecChunker) *)

ValidConfig == cfg.chunk_size > cfg.chunk_overlap /\ cfg.chunk_overlap >= 0

\* C3: with chunk_size > overlap >= 0 every iteration of the loop of chunk_text
\* leaves start strictly greater than it found it (both chunkers)
C3_ForwardProgress ==
    (pc = "chunk" /\ start < Len(text) /\ ValidConfig)
    => NextStart(ChunkEnd(mode, text, start, cfg.chunk_size), cfg.chunk_overlap) > start

\* C4: with chunk_size <= overlap and a non-empty text, chunk_text raises instead
\* of running its loop: no iteration is ever executed
C4_BadConfigFailsFast ==
    (cfg.chunk_size <= cfg.chunk_overlap /\ text /= <<>>)
    => (start = 0 /\ chunks = <<>>)

\* number of offsets two spans have in common
Shared(a, b) ==
    LET lo == IF a.lo > b.lo THEN a.lo ELSE b.lo
        hi == IF a.hi < b.hi THEN a.hi ELSE b.hi
    IN  IF hi > lo THEN hi - lo ELSE 0

\* chunk_text has returned (process_pdf / process_section goes on to embed)
ChunkTextReturned == pc = "embed"

\* C22: the spans of two consecutive chunks share at most chunk_overlap
\* characters, and the later span does not start before the earlier one (both
\* chunkers, chunk_size > overlap >= 0)
C22_OverlapBounded ==
    ValidConfig =>
       \A k \in 1..(Len(spans) - 1) :
          /\ Shared(spans[k], spans[k + 1]) <= cfg.chunk_overlap
          /\ spans[k + 1].lo >= spans[k].lo

\* C23: when RAGService.chunk_text returns, every character of the text that is
\* not whitespace lies in the span of at least one chunk
C23_NothingSkipped ==
    (mode = "pdf" /\ ChunkTextReturned) =>
       \A p \in 1..Len(text) :
          ~IsSpace(text[p]) => \E k \in 1..Len(spans) : spans[k].lo < p /\ p <= spans[k].hi

\* C24: RAGService.chunk_text emits at most ceil(L / (chunk_size - overlap))
\* chunks for a text of length L, whatever break markers the text holds
C24_ChunkCountBound ==
    (mode = "pdf" /\ ValidConfig) =>
       Len(chunks) <= (Len(text) + (cfg.chunk_size - cfg.chunk_overlap) - 1)
                         \div (cfg.chunk_size - cfg.chunk_overlap)

-----------------------------------------------------------------------------
(* Similarity search: RAGService.search_similar_content *)

\* pgvector's `<->` is the Euclidean distance; its square orders the rows the same
Distance(u, v) == (u[1] - v[1]) * (u[1] - v[1]) + (u[2] - v[2]) * (u[2] - v[2])

RowOrders(n) == {f \in [1..n -> 1..n] : \A a \in 1..n : \E b \in 1..n : f[b] = a}

\* (mutant) ORDER BY distance DESC
DistanceOrdersDesc(st, q) ==
    {f \in RowOrders(Len(st)) :
        \A a \in 1..Len(st) : \A b \in 1..Len(st) :
            a < b => Distance(st[f[a]].embedding, q) >= Distance(st[f[b]].embedding, q)}

\* `SELECT ... FROM documents ORDER BY distance`: every order of the rows (by
\* position in the table) in which the distance never decreases; SQL leaves the
\* order of rows at equal distance open
DistanceOrders(st, q) ==
    {f \in RowOrders(Len(st)) :
        \A a \in 1..Len(st) : \A b \in 1..Len(st) :
            a < b => Distance(st[f[a]].embedding, q) <= Distance(st[f[b]].embedding, q)}

\* `LIMIT :limit`
Limited(f, n) == SubSeq(f, 1, IF n < Len(f) THEN n ELSE Len(f))

\* `[row[0] for row in result]`
Contents(st, rs) == [k \in 1..Len(rs) |-> st[rs[k]].content]

\* texts that are stored and asked about
SearchTexts == {<<"a">>, <<"a", "a">>, <<"a", ".">>, <<"a", "a", ".">>}

\* where search_similar_content returns to: get_response goes on to read the
\* history, the /query endpoint goes on to its `if request.user_id and ...`
AfterSearch ==
    IF frame = "get_response" THEN "history"
    ELSE IF frame = "endpoint" THEN "branch" ELSE "searched"

\* the embedding call and the query succeed
Search ==
    /\ pc = "search"
    /\ \E f \in DistanceOrders(store, EmbeddingOf(query)) :
          /\ query_embedding' = EmbeddingOf(query)
          /\ rows' = Limited(f, limit)
          /\ similar_content' = Contents(store, rows')
    /\ pc' = AfterSearch
    /\ UNCHANGED <<botVars, sectionVars, taskVars, answerVars, mode, cfg, pages, extract_log,
                   text, chunkVars, ingestVars,
                   limit, query>>

\* (mutant) generate_embedding raises and the exception leaves
\* search_similar_content: the caller's handler ends the request
SearchEmbedFailRaises ==
    /\ pc = "search"
    /\ query_embedding' = <<>>
    /\ rows' = <<>>
    /\ similar_content' = <<>>
    /\ pc' = IF frame = "none" THEN "searched" ELSE "returned"
    /\ UNCHANGED <<botVars, sectionVars, taskVars, answerVars, mode, cfg, pages, extract_log,
                   text, chunkVars, ingestVars,
                   limit, query>>

\* generate_embedding raises: except -> return []
SearchEmbedFail ==
    /\ pc = "search"
    /\ query_embedding' = <<>>
    /\ rows' = <<>>
    /\ similar_content' = <<>>
    /\ pc' = AfterSearch
    /\ UNCHANGED <<botVars, sectionVars, taskVars, answerVars, mode, cfg, pages, extract_log,
                   text, chunkVars, ingestVars,
                   limit, query>>

\* db.execute raises: except -> return []
SearchQueryFail ==
    /\ pc = "search"
    /\ query_embedding' = EmbeddingOf(query)
    /\ rows' = <<>>
    /\ similar_content' = <<>>
    /\ pc' = AfterSearch
    /\ UNCHANGED <<botVars, sectionVars, taskVars, answerVars, mode, cfg, pages, extract_log,
                   text, chunkVars, ingestVars,
                   limit, query>>

\* table documents after earlier ingestions: n rows, ids in insertion order
StoredRows(cs) ==
    [k \in 1..Len(cs) |->
        [id |-> k, filename |-> "old.pdf", content |-> cs[k],
         embedding |-> EmbeddingOf(cs[k]), chunk_index |-> k - 1]]

InitSearch ==
    /\ mode = "pdf"
    /\ cfg = RagConfig
    /\ pages = <<>>
    /\ extract_log = <<>>
    /\ text = <<>>
    /\ pc = "search"
    /\ start = 0
    /\ chunks = <<>>
    /\ spans = <<>>
    /\ i = 0
    /\ pending = <<>>
    /\ store \in {StoredRows(cs) : cs \in UNION {[1..n -> SearchTexts] : n \in 0..MaxDocs}}
    /\ successful_chunks = 0
    /\ result = "none"
    /\ embed_log = <<>>
    /\ commit_log = <<>>
    /\ limit \in 0..MaxLimit
    /\ query \in SearchTexts
    /\ query_embedding = <<>>
    /\ rows = <<>>
    /\ similar_content = <<>>
    /\ AnswerIdle
    /\ SectionsIdle
    /\ TaskIdle
    /\ BotIdle

NextSearch == Search \/ SearchEmbedFail \/ SearchQueryFail

SpecSearch == InitSearch /\ [][NextSearch]_vars

RowDistance(k) == Distance(store[k].embedding, query_embedding)

Returned == {rows[r] : r \in 1..Len(rows)}

\* the embedding call succeeded and the result is what the query produced (an
\* empty result with limit > 0 and rows stored can only come from the except branch)
SearchSucceeded == pc = "searched" /\ query_embedding /= <<>> /\ (rows /= <<>> \/ limit = 0 \/ store = <<>>)

\* C9: search returns at most `limit` contents; when the embedding call and the
\* query succeed they are the contents of min(limit, rows stored) distinct rows,
\* no row left out is closer to the query than a returned one, and they are
\* listed in non-decreasing distance
C9_NearestFirst ==
    pc = "searched" =>
       /\ Len(similar_content) <= limit
       /\ Len(similar_content) = Len(rows)
       /\ \A r \in 1..Len(rows) : similar_content[r] = store[rows[r]].content
       /\ \A a \in 1..Len(rows) : \A b \in 1..Len(rows) :
             a < b => (rows[a] /= rows[b] /\ RowDistance(rows[a]) <= RowDistance(rows[b]))
       /\ \A k \in Returned : \A u \in (1..Len(store)) \ Returned :
             RowDistance(k) <= RowDistance(u)
       /\ SearchSucceeded =>
             Len(rows) = (IF limit < Len(store) THEN limit ELSE Len(store))

\* three rows at three different distances, limit 2: the two nearest, nearest first
C9_Witness ==
    /\ pc = "searched"
    /\ Len(store) = 3
    /\ limit = 2
    /\ Len(rows) = 2
    /\ \A k \in 1..3 : \A n \in 1..3 : k /= n => RowDistance(k) /= RowDistance(n)
    /\ \A u \in 1..3 : RowDistance(rows[1]) <= RowDistance(u)

\* C10: rows at equal distance are listed, and chosen at the cut-off, lower id first
C10_TiesByLowerId ==
    pc = "searched" =>
       /\ \A a \in 1..Len(rows) : \A b \in 1..Len(rows) :
             (a < b /\ RowDistance(rows[a]) = RowDistance(rows[b]))
             => store[rows[a]].id < store[rows[b]].id
       /\ \A k \in Returned : \A u \in (1..Len(store)) \ Returned :
             RowDistance(k) = RowDistance(u) => store[k].id < store[u].id

-----------------------------------------------------------------------------
(* Answering a question: TelegramBot.handle_message (both bot modules),      *)
(* POST /query, RAGService.get_response, get_conversation_history_24h and    *)
(* OpenAIService.generate_response.                                          *)
(* mode is "telegram" (bot/telegram_bot.py), "telegram2"                     *)
(* (bot/telegram_bot2.py) or "rest" (api/endpoints.py).  Times are whole     *)
(* hours.  A fixed string of the program is a text of one element.           *)

Window       == 24   \* timedelta(hours=24)
HistoryLimit == 20   \* conversation_history_24h[-20:]
DefaultLimit == 3    \* search_similar_content(..., limit: int = 3)

NoInfoMarker == <<"No se encontro informacion relevante en los documentos procesados.">>
HistoryStartMarker == <<"=== Historial de conversacion de las ultimas 24 horas ===">>
HistoryEndMarker   == <<"=== Fin del historial - Responde a la nueva consulta ===">>
GenApology == <<"Lo siento, ha ocurrido un error al procesar tu consulta. Por favor, intentalo de nuevo.">>
BotError   == <<"Lo siento, ocurrio un error procesando tu mensaje. Por favor intentalo de nuevo.">>
Bot2Error  == <<"Lo siento, ha ocurrido un error al procesar tu mensaje. Por favor, intentalo de nuevo.">>
Greeting   == <<"Hola! Soy un asistente virtual.">>
StartHint  == <<"Por favor, usa el comando /start para comenzar.">>

TelegramModes == {"telegram", "telegram2"}

\* "\n\n".join(parts)
RECURSIVE Join(_)
Join(parts) ==
    IF parts = <<>> THEN <<>>
    ELSE IF Len(parts) = 1 THEN parts[1]
    ELSE parts[1] \o <<"\n", "\n">> \o Join(Tail(parts))

\* (mutant) the chunks are joined whether or not there are any
ContextOfJoinOnly(found) == Join(found)

\* `if similar_content: context = "\n\n".join(similar_content) else: context = "No se ..."`
ContextOf(found) == IF found /= <<>> THEN Join(found) ELSE NoInfoMarker

\* the first message: the persona prompt with {context} substituted
SystemMessage(ctx) ==
    [role |-> "system",
     content |-> <<"# IDENTIDAD Y PERSONA ... Contexto de documentos relevantes:">>
                 \o ctx \o <<"# OBJETIVOS PRINCIPALES ... # NOTAS IMPORTANTES ...">>]

HistoryStart == [role |-> "system", content |-> HistoryStartMarker]
HistoryEnd   == [role |-> "system", content |-> HistoryEndMarker]
UserMessage(q) == [role |-> "user", content |-> q]

\* (mutant) the history is appended without the two separators
AssembleNoMarkers(q, ctx, h) ==
    <<SystemMessage(ctx)>> \o Slice(h, 0 - HistoryLimit, Len(h)) \o <<UserMessage(q)>>

\* (mutant) the history is cut to an odd number of entries
AssembleOddCut(q, ctx, h) ==
    <<SystemMessage(ctx)>>
    \o (IF h /= <<>>
        THEN <<HistoryStart>> \o Slice(h, 1 - HistoryLimit, Len(h)) \o <<HistoryEnd>>
        ELSE <<>>)
    \o <<UserMessage(q)>>

\* the `messages` list built by generate_response
Assemble(q, ctx, h) ==
    <<SystemMessage(ctx)>>
    \o (IF h /= <<>>
        THEN <<HistoryStart>> \o Slice(h, 0 - HistoryLimit, Len(h)) \o <<HistoryEnd>>
        ELSE <<>>)
    \o <<UserMessage(q)>>

\* (mutant) the window is open at its old end
InWindowStrict(row, uid, t) == row.user_id = uid /\ row.created_at > t - Window

\* Conversation.user_id == user_id AND Conversation.created_at >= twenty_four_hours_ago
InWindow(row, uid, t) == row.user_id = uid /\ row.created_at >= t - Window

\* (mutant) the rows come back in the order of the table
RECURSIVE StoredOrders(_, _)
StoredOrders(tbl, S) ==
    IF S = {} THEN {<<>>}
    ELSE {<<Min(S)>> \o r : r \in StoredOrders(tbl, S \ {Min(S)})}

\* ORDER BY created_at ASC over the rows at the positions S: every order in which
\* created_at never decreases
RECURSIVE CreatedOrders(_, _)
CreatedOrders(tbl, S) ==
    IF S = {} THEN {<<>>}
    ELSE LET oldest == {k \in S : \A n \in S : tbl[k].created_at <= tbl[n].created_at}
         IN  UNION {{<<k>> \o r : r \in CreatedOrders(tbl, S \ {k})} : k \in oldest}

\* the filtered, ordered query of get_conversation_history_24h
WindowRows(tbl, uid, t) ==
    CreatedOrders(tbl, {k \in 1..Len(tbl) : InWindow(tbl[k], uid, t)})

\* `for conv in conversations: history.append(user ...); history.append(assistant ...)`
HistoryOf(tbl, convs) ==
    [j \in 1..(2 * Len(convs)) |->
        IF j % 2 = 1 THEN [role |-> "user", content |-> tbl[convs[(j + 1) \div 2]].message]
        ELSE [role |-> "assistant", content |-> tbl[convs[j \div 2]].response]]

\* what the completion call returns when it succeeds
Completions == {<<"respuesta">>}

\* Conversation(user_id=db_user.id, message=message_text, response=response)
NewTurn(tbl, uid, msg, resp, t) ==
    [id |-> Len(tbl) + 1, user_id |-> uid, message |-> msg, response |-> resp,
     created_at |-> t]

Answer(txt) == [kind |-> "answer", text |-> txt]

\* db_user found: handle_message calls rag_service.get_response
LookupKnown ==
    /\ pc = "lookup"
    /\ user_id /= 0
    /\ frame' = "get_response"
    /\ pc' = "search"
    /\ UNCHANGED <<botVars, sectionVars, taskVars, mode, cfg, pages, extract_log, text,
                   chunkVars, ingestVars, searchVars,
                   requestVars, conversation_table, conversations, history_log,
                   conversation_history_24h, context, messages, gen_log, response,
                   save_log, reply>>

\* no db_user: telegram_bot registers the sender and greets, telegram_bot2 asks
\* for /start; neither answers the message
LookupUnknown ==
    /\ pc = "lookup"
    /\ user_id = 0
    /\ reply' = [kind |-> "greeting", text |-> IF mode = "telegram" THEN Greeting ELSE StartHint]
    /\ pc' = "done"
    /\ UNCHANGED <<botVars, sectionVars, taskVars, mode, cfg, pages, extract_log, text,
                   chunkVars, ingestVars, searchVars,
                   frame, requestVars, conversation_table, conversations, history_log,
                   conversation_history_24h, context, messages, gen_log, response,
                   save_log>>

\* the user query raises: the handler's except sends its error text
LookupFail ==
    /\ pc = "lookup"
    /\ reply' = [kind |-> "error", text |-> IF mode = "telegram" THEN BotError ELSE Bot2Error]
    /\ pc' = "done"
    /\ UNCHANGED <<botVars, sectionVars, taskVars, mode, cfg, pages, extract_log, text,
                   chunkVars, ingestVars, searchVars,
                   frame, requestVars, conversation_table, conversations, history_log,
                   conversation_history_24h, context, messages, gen_log, response,
                   save_log>>

\* get_response: get_conversation_history_24h returns the history
HistoryRead ==
    /\ pc = "history"
    /\ \E f \in WindowRows(conversation_table, user_id, now) :
          /\ conversations' = f
          /\ conversation_history_24h' = HistoryOf(conversation_table, f)
    /\ history_log' = Append(history_log, "ok")
    /\ pc' = "generate"
    /\ UNCHANGED <<botVars, sectionVars, taskVars, mode, cfg, pages, extract_log, text,
                   chunkVars, ingestVars, searchVars,
                   frame, requestVars, conversation_table, context, messages, gen_log,
                   response, save_log, reply>>

\* get_response: the history query raises: except -> return []
HistoryReadFail ==
    /\ pc = "history"
    /\ conversations' = <<>>
    /\ conversation_history_24h' = <<>>
    /\ history_log' = Append(history_log, "fail")
    /\ pc' = "generate"
    /\ UNCHANGED <<botVars, sectionVars, taskVars, mode, cfg, pages, extract_log, text,
                   chunkVars, ingestVars, searchVars,
                   frame, requestVars, conversation_table, context, messages, gen_log,
                   response, save_log, reply>>

\* POST /query, `if request.user_id and request.include_history`: the endpoint
\* reads the history for its counters and calls get_response
RestWithHistory ==
    /\ pc = "branch"
    /\ user_id /= 0 /\ include_history
    /\ \/ /\ \E f \in WindowRows(conversation_table, user_id, now) :
                /\ conversations' = f
                /\ conversation_history_24h' = HistoryOf(conversation_table, f)
          /\ history_log' = Append(history_log, "ok")
       \/ /\ conversations' = <<>>
          /\ conversation_history_24h' = <<>>
          /\ history_log' = Append(history_log, "fail")
    /\ frame' = "get_response"
    /\ pc' = "search"
    /\ UNCHANGED <<botVars, sectionVars, taskVars, mode, cfg, pages, extract_log, text,
                   chunkVars, ingestVars, searchVars,
                   requestVars, conversation_table, context, messages, gen_log,
                   response, save_log, reply>>

\* (mutant) the else branch reads the history of the user all the same
RestNoHistoryReads ==
    /\ pc = "branch"
    /\ ~(user_id /= 0 /\ include_history)
    /\ \E f \in WindowRows(conversation_table, 1, now) :
          /\ conversations' = f
          /\ conversation_history_24h' = HistoryOf(conversation_table, f)
    /\ history_log' = Append(history_log, "ok")
    /\ pc' = "generate"
    /\ UNCHANGED <<botVars, sectionVars, taskVars, mode, cfg, pages, extract_log, text,
                   chunkVars, ingestVars, searchVars,
                   frame, requestVars, conversation_table, context, messages, gen_log,
                   response, save_log, reply>>

\* POST /query, else branch: generate_response(..., conversation_history_24h=None)
RestNoHistory ==
    /\ pc = "branch"
    /\ ~(user_id /= 0 /\ include_history)
    /\ conversation_history_24h' = <<>>
    /\ pc' = "generate"
    /\ UNCHANGED <<botVars, sectionVars, taskVars, mode, cfg, pages, extract_log, text,
                   chunkVars, ingestVars, searchVars,
                   frame, requestVars, conversation_table, conversations, history_log,
                   context, messages, gen_log, response, save_log, reply>>

\* (mutant) a failed completion call returns an empty text
GenerateFailSilent ==
    /\ pc = "generate"
    /\ context' = ContextOf(similar_content)
    /\ messages' = Assemble(query, context', conversation_history_24h)
    /\ response' = <<>>
    /\ gen_log' = Append(gen_log, "fail")
    /\ pc' = "returned"
    /\ UNCHANGED <<botVars, sectionVars, taskVars, mode, cfg, pages, extract_log, text,
                   chunkVars, ingestVars, searchVars,
                   frame, requestVars, conversation_table, conversations, history_log,
                   conversation_history_24h, save_log, reply>>

\* the context is chosen, generate_response builds `messages` and the completion
\* call returns a text
Generate ==
    /\ pc = "generate"
    /\ context' = ContextOf(similar_content)
    /\ messages' = Assemble(query, context', conversation_history_24h)
    /\ \E r \in Completions : response' = r
    /\ gen_log' = Append(gen_log, "ok")
    /\ pc' = "returned"
    /\ UNCHANGED <<botVars, sectionVars, taskVars, mode, cfg, pages, extract_log, text,
                   chunkVars, ingestVars, searchVars,
                   frame, requestVars, conversation_table, conversations, history_log,
                   conversation_history_24h, save_log, reply>>

\* the completion call raises: generate_response's except returns the apology
GenerateFail ==
    /\ pc = "generate"
    /\ context' = ContextOf(similar_content)
    /\ messages' = Assemble(query, context', conversation_history_24h)
    /\ response' = GenApology
    /\ gen_log' = Append(gen_log, "fail")
    /\ pc' = "returned"
    /\ UNCHANGED <<botVars, sectionVars, taskVars, mode, cfg, pages, extract_log, text,
                   chunkVars, ingestVars, searchVars,
                   frame, requestVars, conversation_table, conversations, history_log,
                   conversation_history_24h, save_log, reply>>

\* handle_message after get_response: db.add(conversation); db.commit();
\* reply_text(response)
SaveTurn ==
    /\ pc = "returned"
    /\ mode \in TelegramModes
    /\ conversation_table' =
          Append(conversation_table, NewTurn(conversation_table, user_id, query, response, now))
    /\ save_log' = Append(save_log, "ok")
    /\ reply' = Answer(response)
    /\ pc' = "done"
    /\ UNCHANGED <<botVars, sectionVars, taskVars, mode, cfg, pages, extract_log, text,
                   chunkVars, ingestVars, searchVars,
                   frame, requestVars, conversations, history_log,
                   conversation_history_24h, context, messages, gen_log, response>>

\* db.commit() raises.  telegram_bot: the inner except rolls back and the
\* response is sent; telegram_bot2: the commit is not guarded, the handler's
\* except sends its error text
SaveTurnFail ==
    /\ pc = "returned"
    /\ mode \in TelegramModes
    /\ save_log' = Append(save_log, "fail")
    /\ reply' = IF mode = "telegram" THEN Answer(response)
                ELSE [kind |-> "error", text |-> Bot2Error]
    /\ pc' = "done"
    /\ UNCHANGED <<botVars, sectionVars, taskVars, mode, cfg, pages, extract_log, text,
                   chunkVars, ingestVars, searchVars,
                   frame, requestVars, conversation_table, conversations, history_log,
                   conversation_history_24h, context, messages, gen_log, response>>

\* POST /query: return QueryResponse(response=response, ...)
RestReturn ==
    /\ pc = "returned"
    /\ mode = "rest"
    /\ reply' = Answer(response)
    /\ pc' = "done"
    /\ UNCHANGED <<botVars, sectionVars, taskVars, mode, cfg, pages, extract_log, text,
                   chunkVars, ingestVars, searchVars,
                   frame, requestVars, conversation_table, conversations, history_log,
                   conversation_history_24h, context, messages, gen_log, response,
                   save_log>>

\* the moment the question arrives
Now == Window + 2

\* texts of the k-th stored turn
MessageText(k)  == <<"q">> \o [j \in 1..k |-> "i"]
ResponseText(k) == <<"r">> \o [j \in 1..k |-> "i"]

\* owner and age of a stored turn: just outside the window, on its edge, recent
TurnKinds == [user_id : {1, 2}, created_at : {Now - Window - 1, Now - Window, Now - 1}]

TableOf(kinds) ==
    [k \in 1..Len(kinds) |->
        [id |-> k, user_id |-> kinds[k].user_id, message |-> MessageText(k),
         response |-> ResponseText(k), created_at |-> kinds[k].created_at]]

\* n turns of user 1, one per hour, the last one an hour ago
LongTable(n) ==
    [k \in 1..n |->
        [id |-> k, user_id |-> 1, message |-> MessageText(k),
         response |-> ResponseText(k), created_at |-> Now - 1 - (n - k)]]

ConversationTables ==
    {TableOf(kinds) : kinds \in UNION {[1..n -> TurnKinds] : n \in 0..MaxTurns}}
    \cup {LongTable(n) : n \in {HistoryLimit \div 2, HistoryLimit \div 2 + 1,
                                HistoryLimit + 1, MaxLongTurns}}

\* table documents: empty, or two chunks at different distances from the question
AnswerStores == {<<>>, StoredRows(<< <<"a", ".">>, <<"a">> >>)}

InitAnswer ==
    /\ mode \in TelegramModes \cup {"rest"}
    /\ cfg = RagConfig
    /\ pages = <<>>
    /\ extract_log = <<>>
    /\ text = <<>>
    /\ pc = (IF mode = "rest" THEN "search" ELSE "lookup")
    /\ start = 0
    /\ chunks = <<>>
    /\ spans = <<>>
    /\ i = 0
    /\ pending = <<>>
    /\ store \in AnswerStores
    /\ successful_chunks = 0
    /\ result = "none"
    /\ embed_log = <<>>
    /\ commit_log = <<>>
    /\ limit = DefaultLimit
    /\ query = <<"a">>
    /\ query_embedding = <<>>
    /\ rows = <<>>
    /\ similar_content = <<>>
    /\ frame = (IF mode = "rest" THEN "endpoint" ELSE "handler")
    /\ user_id \in 0..1
    /\ include_history \in (IF mode = "rest" THEN BOOLEAN ELSE {TRUE})
    /\ now = Now
    /\ conversation_table \in ConversationTables
    /\ conversations = <<>>
    /\ history_log = <<>>
    /\ conversation_history_24h = <<>>
    /\ context = <<>>
    /\ messages = <<>>
    /\ gen_log = <<>>
    /\ response = <<>>
    /\ save_log = <<>>
    /\ reply = NoReply
    /\ SectionsIdle
    /\ TaskIdle
    /\ BotIdle

NextAnswer ==
    \/ LookupKnown
    \/ LookupUnknown
    \/ LookupFail
    \/ Search
    \/ SearchEmbedFail
    \/ SearchQueryFail
    \/ HistoryRead
    \/ HistoryReadFail
    \/ RestWithHistory
    \/ RestNoHistory
    \/ Generate
    \/ GenerateFail
    \/ SaveTurn
    \/ SaveTurnFail
    \/ RestReturn

SpecAnswer == InitAnswer /\ [][NextAnswer]_vars

-----------------------------------------------------------------------------
(* Properties of answering *)

Last(q) == q[Len(q)]

\* the completion call has been made
Generated == pc \in {"returned", "done"} /\ gen_log /= <<>>

\* the last read of the history succeeded and the table is still as it was read
HistoryWasRead == history_log /= <<>> /\ Last(history_log) = "ok" /\ pc /= "done"

\* a turn for the message being answered is in table conversations
TurnPersisted ==
    \E k \in 1..Len(conversation_table) :
        conversation_table[k].message = query /\ conversation_table[k].created_at = now

\* C11: when the embedding call for the question fails, search hands back an
\* empty list to its caller instead of raising, and the completion call is still
\* made, with the "no relevant information" marker as the document context
C11_EmbedFailureDegrades ==
    /\ (pc \in {"searched", "branch", "history"} /\ query_embedding = <<>>)
          => similar_content = <<>>
    /\ (pc \in {"returned", "done"} /\ frame \in {"get_response", "endpoint"}
          /\ query_embedding = <<>>)
          => /\ Len(gen_log) = 1
             /\ context = NoInfoMarker
             /\ messages /= <<>>
             /\ messages[1] = SystemMessage(NoInfoMarker)

\* get_response answered although chunks are stored and the embedding call failed
C11_Witness ==
    /\ pc = "done"
    /\ frame = "get_response"
    /\ store /= <<>>
    /\ query_embedding = <<>>
    /\ gen_log = <<"ok">>
    /\ context = NoInfoMarker
    /\ reply = Answer(response)

\* C12: the history read holds a stored turn exactly when the turn is the
\* user's and was created no earlier than 24 hours before now; every such turn
\* is there once
C12_WindowMembership ==
    HistoryWasRead =>
       /\ \A k \in 1..Len(conversation_table) :
             (\E j \in 1..Len(conversations) : conversations[j] = k)
             <=> (/\ conversation_table[k].user_id = user_id
                  /\ conversation_table[k].created_at >= now - Window)
       /\ \A a \in 1..Len(conversations) : \A b \in 1..Len(conversations) :
             a /= b => conversations[a] /= conversations[b]
       /\ Len(conversation_history_24h) = 2 * Len(conversations)
       /\ \A j \in 1..Len(conversations) :
             conversation_history_24h[2 * j - 1].content
                = conversation_table[conversations[j]].message

\* the user's turn just outside the window is left out, the one on its edge is
\* in, another user's recent turn is left out
C12_Witness ==
    /\ HistoryWasRead
    /\ Len(conversation_table) = 3
    /\ \E a \in 1..3 : \E b \in 1..3 : \E c \in 1..3 :
          /\ conversation_table[a].user_id = user_id
          /\ conversation_table[a].created_at = now - Window - 1
          /\ conversation_table[b].user_id = user_id
          /\ conversation_table[b].created_at = now - Window
          /\ conversation_table[c].user_id /= user_id
          /\ conversation_table[c].created_at = now - 1
          /\ conversations = <<b>>

\* C13: the history lists the turns oldest first, whatever their order in the
\* table, each as a user entry with the message followed by an assistant entry
\* with the response
C13_OldestFirst ==
    HistoryWasRead =>
       /\ \A a \in 1..Len(conversations) : \A b \in 1..Len(conversations) :
             a < b => conversation_table[conversations[a]].created_at
                         <= conversation_table[conversations[b]].created_at
       /\ \A j \in 1..Len(conversations) :
             /\ conversation_history_24h[2 * j - 1]
                   = [role |-> "user", content |-> conversation_table[conversations[j]].message]
             /\ conversation_history_24h[2 * j]
                   = [role |-> "assistant",
                      content |-> conversation_table[conversations[j]].response]

\* a newer turn is stored before an older one and comes back after it
C13_Witness ==
    /\ HistoryWasRead
    /\ Len(conversations) = 2
    /\ conversations[1] > conversations[2]
    /\ conversation_table[conversations[1]].created_at
          < conversation_table[conversations[2]].created_at

\* offset in the joined context of the k-th chunk
RECURSIVE ChunkOffset(_, _)
ChunkOffset(found, k) ==
    IF k = 1 THEN 0 ELSE ChunkOffset(found, k - 1) + Len(found[k - 1]) + 2

\* C14: the context handed to the completion call is never empty: the marker
\* when search returned nothing, else the chunks in search order with one blank
\* line between neighbours; on the get_response path and on the path without history
C14_ContextNeverEmpty ==
    Generated =>
       /\ context /= <<>>
       /\ messages[1] = SystemMessage(context)
       /\ similar_content = <<>> => context = NoInfoMarker
       /\ similar_content /= <<>> =>
             LET n == Len(similar_content)
             IN  /\ Len(context) = ChunkOffset(similar_content, n) + Len(similar_content[n])
                 /\ \A k \in 1..n :
                       SubSeq(context, ChunkOffset(similar_content, k) + 1,
                              ChunkOffset(similar_content, k) + Len(similar_content[k]))
                          = similar_content[k]
                 /\ \A k \in 2..n :
                       SubSeq(context, ChunkOffset(similar_content, k) - 1,
                              ChunkOffset(similar_content, k)) = <<"\n", "\n">>

\* POST /query without a user, nothing stored: the marker is the context
C14_Witness ==
    /\ pc = "done"
    /\ mode = "rest"
    /\ frame = "endpoint"
    /\ gen_log /= <<>>
    /\ similar_content = <<>>
    /\ context = NoInfoMarker

\* C15: with more than 20 turns in the history (a turn is a user entry and an
\* assistant entry) the messages hold exactly the 20 most recent turns, in order
C15_KeepsLastTwentyTurns ==
    (Generated /\ Len(conversation_history_24h) > 2 * HistoryLimit) =>
       /\ Len(messages) = 2 * HistoryLimit + 4
       /\ \A j \in 1..(2 * HistoryLimit) :
             messages[2 + j]
                = conversation_history_24h[Len(conversation_history_24h) - 2 * HistoryLimit + j]

\* C16: the messages are: the system block with the context; then, exactly when
\* the history is not empty, the start marker, history entries in their order and
\* the end marker; then the question, last
C16_MessageOrder ==
    Generated =>
       LET n == Len(messages)
           h == conversation_history_24h
       IN  /\ n >= 2
           /\ messages[1] = SystemMessage(context)
           /\ messages[n] = UserMessage(query)
           /\ IF h /= <<>>
              THEN /\ n >= 5
                   /\ messages[2] = HistoryStart
                   /\ messages[n - 1] = HistoryEnd
                   /\ \E off \in 0..Len(h) :
                         /\ off + (n - 4) = Len(h)
                         /\ \A j \in 3..(n - 2) : messages[j] = h[off + j - 2]
              ELSE n = 2

\* a question answered with a history between the markers
C16_Witness ==
    /\ Generated
    /\ Len(conversation_history_24h) = 4
    /\ Len(messages) = 8
    /\ messages[2] = HistoryStart
    /\ messages[7] = HistoryEnd

\* C17: POST /query without a user id never reads the history and its messages
\* hold neither history marker
C17_NoUserNoHistory ==
    (mode = "rest" /\ user_id = 0) =>
       /\ history_log = <<>>
       /\ \A j \in 1..Len(messages) :
             messages[j] /= HistoryStart /\ messages[j] /= HistoryEnd

\* answered without a user id although turns are stored and history was asked for
C17_Witness ==
    /\ mode = "rest"
    /\ user_id = 0
    /\ include_history
    /\ conversation_table /= <<>>
    /\ pc = "done"
    /\ Len(messages) = 2

\* C18: a turn is stored only when the completion call for its message
\* succeeded, and never without a response
C18_TurnOnlyAfterGeneration ==
    /\ (gen_log /= <<>> /\ Last(gen_log) = "fail") => ~TurnPersisted
    /\ TurnPersisted => (gen_log /= <<>> /\ Last(gen_log) = "ok")
    /\ \A k \in 1..Len(conversation_table) : conversation_table[k].response /= <<>>

\* C19: when the commit of the turn fails the turn is not stored, the commit is
\* not tried again and the user is sent the answer that was generated
C19_SaveFailureKeepsAnswer ==
    (pc = "done" /\ save_log /= <<>> /\ Last(save_log) = "fail") =>
       /\ ~TurnPersisted
       /\ Len(save_log) = 1
       /\ reply = Answer(response)

KeptHistory == SubSeq(messages, 3, Len(messages) - 2)

\* C26: the history entries in the prompt are whole turns: a user entry first,
\* user and assistant entries alternating, an assistant entry last, and every
\* assistant entry is the response to the user entry right before it
C26_WholeTurnsKept ==
    (Generated /\ conversation_history_24h /= <<>>) =>
       /\ Len(KeptHistory) % 2 = 0
       /\ \A j \in 1..Len(KeptHistory) :
             KeptHistory[j].role = (IF j % 2 = 1 THEN "user" ELSE "assistant")
       /\ \A j \in 1..(Len(KeptHistory) \div 2) :
             \E k \in 1..Len(conversation_table) :
                /\ conversation_table[k].user_id = user_id
                /\ KeptHistory[2 * j - 1].content = conversation_table[k].message
                /\ KeptHistory[2 * j].content = conversation_table[k].response

\* a history longer than the limit was cut
C26_Witness ==
    /\ Generated
    /\ Len(conversation_history_24h) > HistoryLimit
    /\ Len(KeptHistory) = HistoryLimit
    /\ KeptHistory[1] /= conversation_history_24h[1]

-----------------------------------------------------------------------------
(* Splitting a PDF into sections: PDFSectionProcessor.extract_sections.      *)
(* "C" stands for one of the title words (Capitulo, Chapter, Seccion, ...),   *)
(* "a" for any other word character.                                         *)

WordChars == {"C", "a"}

\* text.splitlines(): the lines between the line ends; a line end at the very
\* end of the text opens no further line
RECURSIVE SplitLines(_)
SplitLines(t) ==
    IF t = <<>> THEN <<>>
    ELSE LET ends == {k \in 1..Len(t) : t[k] = "\n"}
         IN  IF ends = {} THEN <<t>>
             ELSE <<SubSeq(t, 1, Min(ends) - 1)>> \o SplitLines(SubSeq(t, Min(ends) + 1, Len(t)))

\* title_pattern.match(line.strip()): a title word at the very beginning, ended
\* by a word boundary
IsTitle(line) ==
    LET l == Strip(line)
    IN  /\ l /= <<>>
        /\ l[1] = "C"
        /\ (Len(l) = 1 \/ l[2] \notin WordChars)

\* the inner loop of extract_sections over the lines of one page, applied to
\* the pair [sections, current_section]
RECURSIVE AddLines(_, _)
AddLines(acc, lines) ==
    IF lines = <<>> THEN acc
    ELSE LET line == Head(lines)
             flushed == IF IsTitle(line) /\ Strip(acc.current_section) /= <<>>
                        THEN [sections |-> Append(acc.sections, Strip(acc.current_section)),
                              current_section |-> <<>>]
                        ELSE acc
         IN  AddLines([sections |-> flushed.sections,
                       current_section |-> flushed.current_section \o line \o <<"\n">>],
                      Tail(lines))

\* one iteration of the loop over the pages: `if not text: continue`, the loop
\* over the lines, and the flush `if page_num == len(pdf.pages) and ...`
SectionsPage ==
    /\ pc = "sections"
    /\ page_num < Len(pages)
    /\ page_num' = page_num + 1
    /\ IF pages[page_num + 1] = <<>>
       THEN UNCHANGED <<botVars, current_section, sections>>
       ELSE LET acc == AddLines([sections |-> sections, current_section |-> current_section],
                                SplitLines(pages[page_num + 1]))
            IN  /\ current_section' = acc.current_section
                /\ sections' = IF page_num + 1 = Len(pages) /\ Strip(acc.current_section) /= <<>>
                               THEN Append(acc.sections, Strip(acc.current_section))
                               ELSE acc.sections
    /\ UNCHANGED <<botVars, taskVars, answerVars, mode, cfg, pages, extract_log, text, pc,
                   chunkVars,
                   ingestVars, searchVars>>

\* the pages are exhausted: `return sections`
SectionsReturn ==
    /\ pc = "sections"
    /\ page_num = Len(pages)
    /\ pc' = "sections_done"
    /\ UNCHANGED <<botVars, sectionVars, taskVars, answerVars, mode, cfg, pages, extract_log, text,
                   chunkVars, ingestVars, searchVars>>

\* page.extract_text() of the pages of the PDF (<<>>: None or "")
SecPageTexts == Texts({"C", "a", "\n"}, MaxSecPageLen)

SecDocs == UNION {[1..n -> SecPageTexts] : n \in 0..MaxSecPages}

InitSections ==
    /\ mode = "section"
    /\ cfg = SectionDefault
    /\ pages \in SecDocs
    /\ extract_log = <<>>
    /\ text = <<>>
    /\ pc = "sections"
    /\ start = 0
    /\ chunks = <<>>
    /\ spans = <<>>
    /\ i = 0
    /\ pending = <<>>
    /\ store = <<>>
    /\ successful_chunks = 0
    /\ result = "none"
    /\ embed_log = <<>>
    /\ commit_log = <<>>
    /\ limit = 0
    /\ query = <<>>
    /\ query_embedding = <<>>
    /\ rows = <<>>
    /\ similar_content = <<>>
    /\ AnswerIdle
    /\ SectionsIdle
    /\ TaskIdle
    /\ BotIdle

NextSections == SectionsPage \/ SectionsReturn

SpecSections == InitSections /\ [][NextSections]_vars

\* the lines of a sequence of texts that are not empty, in order
RECURSIVE TextLines(_)
TextLines(ts) ==
    IF ts = <<>> THEN <<>>
    ELSE SelectSeq(SplitLines(Head(ts)), LAMBDA l : Strip(l) /= <<>>) \o TextLines(Tail(ts))

\* C27: when extract_sections returns, the non-blank lines of the pages are the
\* non-blank lines of the sections, each once and in document order, and every
\* section but the first begins with a title line
C27_NoTextLost ==
    pc = "sections_done" =>
       /\ TextLines(sections) = TextLines(pages)
       /\ \A k \in 2..Len(sections) : IsTitle(Head(SplitLines(sections[k])))

-----------------------------------------------------------------------------
(* The Telegram bots: bot/telegram_bot.py (mode "telegram", text messages) and *)
(* bot/telegram_bot2.py (mode "telegram2", text messages and the commands     *)
(* /start and /historial, which call get_conversation_summary). All updates   *)
(* come from one Telegram user, whose row in table users has id BotUser.      *)

BotUser == 1

\* every variable no step of the bots changes
botFrame == <<sectionVars, taskVars, mode, cfg, pages, extract_log, text, pc, chunkVars,
              ingestVars, searchVars, frame, user_id, include_history, conversations,
              history_log, conversation_history_24h, context, messages, gen_log, response,
              save_log, reply>>

\* message_text of the update with this id
UpdateMessage(u) == MessageText(MaxTurns + u)

UpdateKinds == IF mode = "telegram2" THEN {"message", "summary"} ELSE {"message"}

NoSummary == [returned |-> FALSE, total_conversations |-> 0, conversations_24h |-> 0,
              last_conversation |-> <<>>]

\* the dictionary get_conversation_summary returns when a query raises
FailedSummary == [returned |-> TRUE, total_conversations |-> 0, conversations_24h |-> 0,
                  last_conversation |-> <<>>]

\* db.query(Conversation).filter(Conversation.user_id == user_id).count()
TotalCount(tbl, uid) == Cardinality({k \in 1..Len(tbl) : tbl[k].user_id = uid})

\* ... .filter(and_(user_id == user_id, created_at >= twenty_four_hours_ago)).count()
RecentCount(tbl, uid, t) == Cardinality({k \in 1..Len(tbl) : InWindow(tbl[k], uid, t)})

\* ... .order_by(Conversation.created_at.desc()).first(), then
\* `last_conversation.created_at.isoformat() if last_conversation else None`
\* (<<>> is None)
LastConversation(tbl, uid) ==
    LET own == {k \in 1..Len(tbl) : tbl[k].user_id = uid}
    IN  IF own = {} THEN <<>> ELSE <<Max({tbl[k].created_at : k \in own})>>

\* a handler is between its first statement and its return
HandlerRunning == \E u \in DOMAIN handler_pc : handler_pc[u] \notin {"idle", "finished"}

\* (mutant) Application.builder().concurrent_updates(True): the next update is
\* handled in a task of its own
DispatcherFreeConcurrent == TRUE

\* Application.builder().token(...).build() leaves concurrent_updates off: the
\* application awaits the handler of one update before it takes the next
DispatcherFree == ~HandlerRunning

\* updater.start_polling(): the next update arrives
Arrive ==
    /\ pc = "polling"
    /\ next_update_id < MaxUpdates
    /\ \E kind \in UpdateKinds :
          update_queue' = Append(update_queue, [update_id |-> next_update_id + 1,
                                                kind |-> kind])
    /\ next_update_id' = next_update_id + 1
    /\ UNCHANGED <<botFrame, now, conversation_table, known_users, handler_pc,
                   handler_history, summary>>

\* the application takes the oldest update of the queue and calls its handler,
\* which runs up to its first await
Dispatch ==
    /\ pc = "polling"
    /\ update_queue /= <<>>
    /\ DispatcherFree
    /\ LET upd == Head(update_queue)
       IN  handler_pc' = [handler_pc EXCEPT ![upd.update_id] =
                             IF upd.kind = "message" THEN "typing" ELSE "summary"]
    /\ update_queue' = Tail(update_queue)
    /\ UNCHANGED <<botFrame, now, conversation_table, next_update_id, known_users,
                   handler_history, summary>>

\* handle_message: send_chat_action raises, before the try block
MessageTypingFail ==
    /\ \E u \in DOMAIN handler_pc :
          /\ handler_pc[u] = "typing"
          /\ handler_pc' = [handler_pc EXCEPT ![u] = "finished"]
    /\ UNCHANGED <<botFrame, now, conversation_table, update_queue, next_update_id,
                   known_users, handler_history, summary>>

\* handle_message: send_chat_action has returned, the user is found, and
\* get_response awaits the embedding of the question
MessageLookup ==
    /\ \E u \in DOMAIN handler_pc :
          /\ handler_pc[u] = "typing"
          /\ BotUser \in known_users
          /\ handler_pc' = [handler_pc EXCEPT ![u] = "embedding"]
    /\ UNCHANGED <<botFrame, now, conversation_table, update_queue, next_update_id,
                   known_users, handler_history, summary>>

\* handle_message: the user is not found. telegram_bot.py adds the user, commits
\* (which may fail) and greets; telegram_bot2.py asks for /start
MessageNewUser ==
    /\ \E u \in DOMAIN handler_pc :
          /\ handler_pc[u] = "typing"
          /\ BotUser \notin known_users
          /\ handler_pc' = [handler_pc EXCEPT ![u] = "replying"]
    /\ \E committed \in BOOLEAN :
          known_users' = IF mode = "telegram" /\ committed
                         THEN known_users \cup {BotUser} ELSE known_users
    /\ UNCHANGED <<botFrame, now, conversation_table, update_queue, next_update_id,
                   handler_history, summary>>

\* get_response: the embedding call is over, get_conversation_history_24h reads
\* the history (or fails and gives []), and generate_response awaits the completion
MessageHistory ==
    /\ \E u \in DOMAIN handler_pc :
          /\ handler_pc[u] = "embedding"
          /\ handler_pc' = [handler_pc EXCEPT ![u] = "generating"]
          /\ \E convs \in WindowRows(conversation_table, BotUser, now) \cup {<<>>} :
                handler_history' = [handler_history EXCEPT ![u] =
                                       [k \in 1..Len(convs) |-> conversation_table[convs[k]].message]]
    /\ UNCHANGED <<botFrame, now, conversation_table, update_queue, next_update_id,
                   known_users, summary>>

\* handle_message: get_response has returned (an answer or its apology), the
\* turn is added and committed, and reply_text is awaited
MessageSave ==
    /\ \E u \in DOMAIN handler_pc :
          /\ handler_pc[u] = "generating"
          /\ handler_pc' = [handler_pc EXCEPT ![u] = "replying"]
          /\ \E resp \in Completions :
                conversation_table' =
                    Append(conversation_table,
                           NewTurn(conversation_table, BotUser, UpdateMessage(u), resp, now))
    /\ now' = now + 1
    /\ UNCHANGED <<botFrame, update_queue, next_update_id, known_users, handler_history,
                   summary>>

\* handle_message: db.commit() raises; the turn is rolled back and a reply is
\* still sent
MessageSaveFail ==
    /\ \E u \in DOMAIN handler_pc :
          /\ handler_pc[u] = "generating"
          /\ handler_pc' = [handler_pc EXCEPT ![u] = "replying"]
    /\ now' = now + 1
    /\ UNCHANGED <<botFrame, conversation_table, update_queue, next_update_id, known_users,
                   handler_history, summary>>

\* start_command / history_command: the user is not found; /start adds the user
\* (its commit may fail), /historial asks for /start
SummaryUnknown ==
    /\ \E u \in DOMAIN handler_pc :
          /\ handler_pc[u] = "summary"
          /\ BotUser \notin known_users
          /\ handler_pc' = [handler_pc EXCEPT ![u] = "replying"]
    /\ \E created \in BOOLEAN :
          known_users' = IF created THEN known_users \cup {BotUser} ELSE known_users
    /\ UNCHANGED <<botFrame, now, conversation_table, update_queue, next_update_id,
                   handler_history, summary>>

\* get_conversation_summary: the first query, total_conversations
SummaryTotal ==
    /\ \E u \in DOMAIN handler_pc :
          /\ handler_pc[u] = "summary"
          /\ BotUser \in known_users
          /\ handler_pc' = [handler_pc EXCEPT ![u] = "summary_recent"]
          /\ summary' = [summary EXCEPT ![u].total_conversations =
                                            TotalCount(conversation_table, BotUser)]
    /\ UNCHANGED <<botFrame, now, conversation_table, update_queue, next_update_id,
                   known_users, handler_history>>

\* get_conversation_summary: the second query, recent_conversations
SummaryRecent ==
    /\ \E u \in DOMAIN handler_pc :
          /\ handler_pc[u] = "summary_recent"
          /\ handler_pc' = [handler_pc EXCEPT ![u] = "summary_last"]
          /\ summary' = [summary EXCEPT ![u].conversations_24h =
                                            RecentCount(conversation_table, BotUser, now)]
    /\ UNCHANGED <<botFrame, now, conversation_table, update_queue, next_update_id,
                   known_users, handler_history>>

\* get_conversation_summary: the third query, last_conversation, and the return;
\* the command then awaits reply_text
SummaryLast ==
    /\ \E u \in DOMAIN handler_pc :
          /\ handler_pc[u] = "summary_last"
          /\ handler_pc' = [handler_pc EXCEPT ![u] = "replying"]
          /\ summary' = [summary EXCEPT ![u].last_conversation =
                                            LastConversation(conversation_table, BotUser),
                                        ![u].returned = TRUE]
    /\ UNCHANGED <<botFrame, now, conversation_table, update_queue, next_update_id,
                   known_users, handler_history>>

\* get_conversation_summary: one of the queries raises; the except branch returns
\* zeros and None
SummaryFail ==
    /\ \E u \in DOMAIN handler_pc :
          /\ \/ handler_pc[u] = "summary" /\ BotUser \in known_users
             \/ handler_pc[u] \in {"summary_recent", "summary_last"}
          /\ handler_pc' = [handler_pc EXCEPT ![u] = "replying"]
          /\ summary' = [summary EXCEPT ![u] = FailedSummary]
    /\ UNCHANGED <<botFrame, now, conversation_table, update_queue, next_update_id,
                   known_users, handler_history>>

\* reply_text has returned or raised; `finally: db.close()` and the handler ends
HandlerReplied ==
    /\ \E u \in DOMAIN handler_pc :
          /\ handler_pc[u] = "replying"
          /\ handler_pc' = [handler_pc EXCEPT ![u] = "finished"]
    /\ UNCHANGED <<botFrame, now, conversation_table, update_queue, next_update_id,
                   known_users, handler_history, summary>>

\* table conversations when the bot starts: empty, or an old and a recent turn
\* of the user and a turn of somebody else
BotTables ==
    {<<>>,
     TableOf(<< [user_id |-> BotUser, created_at |-> Now - Window - 1],
                [user_id |-> 2, created_at |-> Now - 2],
                [user_id |-> BotUser, created_at |-> Now - 1] >>),
     TableOf(<< [user_id |-> 2, created_at |-> Now - 1] >>)}

InitBot ==
    /\ mode \in TelegramModes
    /\ pc = "polling"
    /\ cfg = RagConfig
    /\ pages = <<>>
    /\ extract_log = <<>>
    /\ text = <<>>
    /\ start = 0
    /\ chunks = <<>>
    /\ spans = <<>>
    /\ i = 0
    /\ pending = <<>>
    /\ store = <<>>
    /\ successful_chunks = 0
    /\ result = "none"
    /\ embed_log = <<>>
    /\ commit_log = <<>>
    /\ limit = 0
    /\ query = <<>>
    /\ query_embedding = <<>>
    /\ rows = <<>>
    /\ similar_content = <<>>
    /\ frame = "none"
    /\ user_id = 0
    /\ include_history = FALSE
    /\ now = Now
    /\ conversation_table \in BotTables
    /\ conversations = <<>>
    /\ history_log = <<>>
    /\ conversation_history_24h = <<>>
    /\ context = <<>>
    /\ messages = <<>>
    /\ gen_log = <<>>
    /\ response = <<>>
    /\ save_log = <<>>
    /\ reply = NoReply
    /\ SectionsIdle
    /\ TaskIdle
    /\ update_queue = <<>>
    /\ next_update_id = 0
    /\ known_users \in {S \in SUBSET {BotUser, 2} :
                           \A k \in 1..Len(conversation_table) :
                               conversation_table[k].user_id \in S}
    /\ handler_pc = [u \in 1..MaxUpdates |-> "idle"]
    /\ handler_history = [u \in 1..MaxUpdates |-> <<>>]
    /\ summary = [u \in 1..MaxUpdates |-> NoSummary]

NextBot ==
    \/ Arrive
    \/ Dispatch
    \/ MessageTypingFail
    \/ MessageLookup
    \/ MessageNewUser
    \/ MessageHistory
    \/ MessageSave
    \/ MessageSaveFail
    \/ SummaryUnknown
    \/ SummaryTotal
    \/ SummaryRecent
    \/ SummaryLast
    \/ SummaryFail
    \/ HandlerReplied

SpecBot == InitBot /\ [][NextBot]_vars

\* message_text of a turn another session stores
OtherMessage(n) == <<"o">> \o [j \in 1..n |-> "i"]

OtherTurns == Cardinality({k \in 1..Len(conversation_table) :
                              \E n \in 1..MaxOtherTurns :
                                  conversation_table[k].message = OtherMessage(n)})

\* another session on the same database (a second process running one of the
\* two bots) commits a turn of the user: its handle_message reaches db.commit()
OtherSessionCommit ==
    /\ pc = "polling"
    /\ BotUser \in known_users
    /\ OtherTurns < MaxOtherTurns
    /\ \E resp \in Completions :
          conversation_table' =
              Append(conversation_table,
                     NewTurn(conversation_table, BotUser, OtherMessage(OtherTurns + 1), resp, now))
    /\ UNCHANGED <<botFrame, now, botVars>>

\* the bot on a database that other sessions write to
NextShared == NextBot \/ OtherSessionCommit

SpecShared == InitBot /\ [][NextShared]_vars

-----------------------------------------------------------------------------
(* Properties of the bots (SpecBot) *)

\* the rows of table conversations that hold the turn of update u
TurnRows(u) == {k \in 1..Len(conversation_table) :
                   conversation_table[k].message = UpdateMessage(u)}

\* the handler of update m read the turn of update u as history
ReadTurn(m, u) == \E k \in 1..Len(handler_history[m]) : handler_history[m][k] = UpdateMessage(u)

C30_SummaryConsistent ==
    \A u \in 1..MaxUpdates :
       summary[u].returned =>
          /\ summary[u].conversations_24h <= summary[u].total_conversations
          /\ (summary[u].last_conversation = <<>>) <=> (summary[u].total_conversations = 0)

====
